---- MODULE Spec2Model ----
(***************************************************************************)
(* The two-pass MIPS assembler of core/assembler.py (class Assembly and    *)
(* its helpers InstructionArgument and MIPSInstructionFormat).             *)
(*                                                                         *)
(* Text.  A source line is a sequence of atoms.  Every character the       *)
(* tokenizer looks at is an atom of its own: " ", tab, ",", "#", the       *)
(* double quote, ":" and ".".  A maximal run of other characters (a        *)
(* mnemonic, a register, a literal, an identifier) is one atom, so         *)
(* strip, _removeComments, _split and _isCharEnclosed work position by     *)
(* position exactly as the code does on characters.                       *)
(***************************************************************************)
EXTENDS Integers, Sequences, FiniteSets, TLC

(***************************************************************************)
(* Bounds of the model.                                                    *)
(***************************************************************************)
\* longest source program, in lines
MaxLines == 2
\* number of assemble() calls made on the instance
MaxCalls == 2
\* number of exportAsBinary() calls made on the instance
MaxExports == 1
\* longest line given to _removeComments on its own, in characters
MaxCommentLen == 4
\* longest program of label definitions and uses, in lines
MaxLabelLines == 3

(***************************************************************************)
(* Program constants.                                                      *)
(***************************************************************************)
_IO_SPACE_SIZE == 256
\* presetArgs={"op": 0b001001} of addiu
ADDIU_OP == 9
\* settings, as __init__ leaves them
MAX_STACK_SIZE == 1024
MAX_HEAP_SIZE == 0
\* 0x4E494253, first word of the header
MAGIC == 1313423955

VARIABLES
    sourceLines,    \* self.sourceLines
    labels,         \* self.labels: label name -> byte position
    machCode,       \* self.machCode
    currentPos,     \* self.currentPos
    currentLine,    \* self.currentLine
    errors,         \* self.errors: AssemblyMessage records, insertion order
    warnings,       \* self.warnings
    polluted,       \* self.polluted
    byteorder,      \* the host's native byte order (struct.pack("I", ..))
    pc,             \* where the caller / assemble() stands
    lineIdx,        \* runPass: 1-based index of the next line of the for loop
    exception,      \* the exception the last call raised, "none" if it returned
    nCalls,         \* number of assemble() calls made so far
    errorOrigin,    \* history: physical line whose processing appended errors[k]
    warningOrigin,  \* history: physical line whose processing appended warnings[k]
    pass1Pos,       \* history: currentPos when pass 1 ended (-1 before)
    pass1Len,       \* history: len(machCode) when pass 1 ended (-1 before)
    encArgs,        \* harness of a pure function: the arguments handed to it
    encOut,         \* harness of a pure function: what it returned
    WARN_UNKNOWN_DIRECTIVE, \* self.WARN_UNKNOWN_DIRECTIVE
    fileOut,        \* the bytes the last exportAsBinary wrote to its file
    nExports        \* number of exportAsBinary calls made so far

vars == <<sourceLines, labels, machCode, currentPos, currentLine, errors,
          warnings, polluted, byteorder, pc, lineIdx, exception, nCalls,
          errorOrigin, warningOrigin, pass1Pos, pass1Len, encArgs, encOut,
          WARN_UNKNOWN_DIRECTIVE, fileOut, nExports>>

asmVars == <<sourceLines, labels, machCode, currentPos, currentLine, errors,
             warnings, polluted, byteorder, pc, lineIdx, exception, nCalls,
             errorOrigin, warningOrigin, pass1Pos, pass1Len,
             WARN_UNKNOWN_DIRECTIVE, fileOut, nExports>>

(***************************************************************************)
(* Strings.                                                                *)
(***************************************************************************)
QUOTE == "\""
TAB == "\t"
Whitespace == {" ", TAB}

\* str.strip(): leading and trailing whitespace removed
RECURSIVE lstripWs(_)
lstripWs(s) ==
    IF s # <<>> /\ Head(s) \in Whitespace THEN lstripWs(Tail(s)) ELSE s

RECURSIVE rstripWs(_)
rstripWs(s) ==
    IF s # <<>> /\ s[Len(s)] \in Whitespace
    THEN rstripWs(SubSeq(s, 1, Len(s) - 1)) ELSE s

strip(s) == rstripWs(lstripWs(s))

\* str.rstrip(":") / str.lstrip("."): every trailing / leading c removed
RECURSIVE rstrip(_, _)
rstrip(s, c) ==
    IF s # <<>> /\ s[Len(s)] = c THEN rstrip(SubSeq(s, 1, Len(s) - 1), c) ELSE s

RECURSIVE lstrip(_, _)
lstrip(s, c) ==
    IF s # <<>> /\ Head(s) = c THEN lstrip(Tail(s), c) ELSE s

endswith(s, c) == s # <<>> /\ s[Len(s)] = c
startswith(s, c) == s # <<>> /\ s[1] = c

\* line.replace("\t", " ")
replaceTabs(s) == [i \in 1..Len(s) |-> IF s[i] = TAB THEN " " ELSE s[i]]

\* _isCharEnclosed: the number of quotes from charIndex to the end is odd
_isCharEnclosed(charIndex, string) ==
    Cardinality({i \in charIndex..Len(string) : string[i] = QUOTE}) % 2 = 1

\* _removeComments: the line cut at the first "#" outside a string.  When
\* every "#" of the line is enclosed the loop ends without a return and the
\* function returns None.
_removeComments(line) ==
    IF ~(\E i \in 1..Len(line) : line[i] = "#")
    THEN [none |-> FALSE, line |-> line]
    ELSE LET cut == {i \in 1..Len(line) :
                        line[i] = "#" /\ ~_isCharEnclosed(i, line)}
         IN  IF cut = {}
             THEN [none |-> TRUE, line |-> <<>>]
             ELSE LET i == CHOOSE k \in cut : \A m \in cut : k <= m
                  IN  [none |-> FALSE, line |-> SubSeq(line, 1, i - 1)]

\* _split: the loop over the characters, carrying segment and segments
RECURSIVE splitFrom(_, _, _, _, _)
splitFrom(string, delimiter, i, segment, segments) ==
    IF i > Len(string)
    THEN IF segment # <<>> THEN Append(segments, segment) ELSE segments
    ELSE IF string[i] = delimiter /\ ~_isCharEnclosed(i, string)
         THEN splitFrom(string, delimiter, i + 1, <<>>, Append(segments, segment))
         ELSE splitFrom(string, delimiter, i + 1, Append(segment, string[i]), segments)

_split(string, delimiter) == splitFrom(string, delimiter, 1, <<>>, <<>>)

\* list([arg.strip() for arg in args])
stripAll(args) == [i \in 1..Len(args) |-> strip(args[i])]

(***************************************************************************)
(* Atoms of the operand language.  int(), eval() and the regular           *)
(* expressions of InstructionArgument.evaluate read the characters of an   *)
(* atom; here each atom carries what they find in it.                      *)
(***************************************************************************)
\* atoms that are a decimal integer literal, with the value int() and eval()
\* give them
DecimalLiterals ==
    ("0" :> 0) @@ ("2" :> 2) @@ ("3" :> 3) @@ ("5" :> 5) @@ ("42" :> 42) @@
    ("-8" :> (0 - 8)) @@ ("32" :> 32) @@ ("255" :> 255) @@ ("256" :> 256) @@
    ("65536" :> 65536) @@ ("16777216" :> 16777216) @@
    ("2147483647" :> 2147483647)

\* atoms matched by \$\w+ : a register reference; the value is registerName[1:]
RegisterAtoms ==
    ("$0" :> "0") @@ ("$2" :> "2") @@ ("$3" :> "3") @@ ("$sp" :> "sp") @@
    ("$zero" :> "zero") @@ ("$foo" :> "foo") @@ ("$32" :> "32")

\* atoms matched by (?<![$%])\b[a-zA-Z_]\w{0,} : identifiers
IdentifierAtoms ==
    {"main", "L", "undef", "addiu", "foo", "word", "align", "ascii", "note",
     "x", "a", "b"}

\* atoms that are not a Python expression (eval raises SyntaxError)
MalformedAtoms == {"5+"}

\* str(n) of the small numbers that appear in messages
Str(n) == CASE n = 0 -> "0" [] n = 1 -> "1" [] n = 2 -> "2" [] n = 3 -> "3"
            [] n = 4 -> "4" [] n = 5 -> "5" [] n = 6 -> "6"

\* int(s): the integer a string denotes, ValueError when it denotes none
pyInt(s) ==
    IF Len(s) = 1 /\ s[1] \in DOMAIN DecimalLiterals
    THEN [exc |-> "none", value |-> DecimalLiterals[s[1]]]
    ELSE [exc |-> "ValueError", value |-> 0]

(***************************************************************************)
(* class InstructionArgument                                               *)
(***************************************************************************)
\* the names dictionary of getRegisterNumber
RegisterAliases ==
    ("zero" :> 0) @@ ("gp" :> 28) @@ ("sp" :> 29) @@ ("fp" :> 30) @@ ("ra" :> 31)

\* getRegisterNumber(registerName), registerName an atom of RegisterAtoms
getRegisterNumber(registerName) ==
    LET name == RegisterAtoms[registerName]
    IN  IF name \in DOMAIN RegisterAliases
        THEN [exc |-> "none", value |-> RegisterAliases[name]]
        ELSE pyInt(<<name>>)

\* a label table: labels=None is [known |-> FALSE], a dict is [known |-> TRUE]
EmptyTable == [n \in {} |-> 0]
NoneLabels == [known |-> FALSE, table |-> EmptyTable]
KnownLabels(t) == [known |-> TRUE, table |-> t]

\* "if not labels": None and the empty dict are both falsy; the scope is then
\* every identifier found in expr, bound to 0
evaluateScope(expr, labels_) ==
    IF ~labels_.known \/ DOMAIN labels_.table = {}
    THEN [n \in {<<expr[i]>> : i \in {k \in 1..Len(expr) : expr[k] \in IdentifierAtoms}}
            |-> 0]
    ELSE labels_.table

\* a Python integer too wide for one machine word: its sign and its magnitude
\* in base 2^16, least significant digit first
shiftLeft16(n) ==
    LET mag == IF n < 0 THEN 0 - n ELSE n
    IN  [negative |-> n < 0, digits |-> <<0, mag % 65536, mag \div 65536>>]

\* b >> 16, rounding towards minus infinity as Python does
shiftRight16(b) ==
    LET mag == b.digits[2] + 65536 * b.digits[3]
    IN  IF ~b.negative THEN mag
        ELSE IF b.digits[1] = 0 THEN 0 - mag
        ELSE 0 - mag - 1

\* "__lo": lambda n: (n << 16) >> 16
__lo(n) == shiftRight16(shiftLeft16(n))

\* "__hi": lambda n: (n >> 16)
__hi(n) == n \div 65536

\* atoms that name a relocation operator: "%hi" becomes "__hi" in the scope
RelocationAtoms == {"%hi", "%lo"}

\* eval of one literal or identifier atom in the scope
atomValue(a, scope) ==
    IF a \in DOMAIN DecimalLiterals
    THEN [value |-> DecimalLiterals[a], err |-> <<>>]
    ELSE IF <<a>> \in DOMAIN scope
    THEN [value |-> scope[<<a>>], err |-> <<>>]
    ELSE [value |-> 0, err |-> << <<"Label \"", a, "\" is not defined">> >>]

\* eval of "%lo(a)" / "%hi(a)", inner the value of a: a NameError leaves
\* evald at 0
relocationValue(op, inner) ==
    IF inner.err # <<>> THEN [exc |-> "none", value |-> 0, err |-> inner.err]
    ELSE [exc |-> "none",
          value |-> IF op = "%lo" THEN __lo(inner.value) ELSE __hi(inner.value),
          err |-> <<>>]

\* InstructionArgument.evaluate(expr, labels): [exc, value, err].  value is
\* val.value of the returned InstructionArgument, err the list holding the
\* AssemblyMessage text, empty for err = None.  An exception other than
\* NameError and SyntaxError leaves the function.
evaluate(expr, labels_) ==
    LET scope == evaluateScope(expr, labels_)
    IN  CASE Len(expr) = 0 ->
               [exc |-> "none", value |-> 0, err |-> << <<"Syntax Error">> >>]
          [] Len(expr) = 1 /\ expr[1] \in DOMAIN DecimalLiterals ->
               [exc |-> "none", value |-> DecimalLiterals[expr[1]], err |-> <<>>]
          [] Len(expr) = 1 /\ expr[1] \in DOMAIN RegisterAtoms ->
               LET r == getRegisterNumber(expr[1])
               IN  [exc |-> r.exc, value |-> r.value, err |-> <<>>]
          [] Len(expr) = 1 /\ expr[1] \in IdentifierAtoms ->
               IF expr \in DOMAIN scope
               THEN [exc |-> "none", value |-> scope[expr], err |-> <<>>]
               ELSE [exc |-> "none", value |-> 0,
                     err |-> << <<"Label \"", expr[1], "\" is not defined">> >>]
          [] Len(expr) = 1 /\ expr[1] \in MalformedAtoms ->
               [exc |-> "none", value |-> 0, err |-> << <<"Syntax Error">> >>]
          [] Len(expr) = 4 /\ expr[1] \in RelocationAtoms /\ expr[2] = "("
                  /\ expr[3] \in DOMAIN DecimalLiterals \cup IdentifierAtoms
                  /\ expr[4] = ")" ->
               relocationValue(expr[1], atomValue(expr[3], scope))

(***************************************************************************)
(* class MIPSInstructionFormat                                             *)
(***************************************************************************)
\* InstructionFormats.IType: the _args list
IType == << [name |-> "op", bits |-> 6], [name |-> "rs", bits |-> 5],
            [name |-> "rt", bits |-> 5], [name |-> "imm", bits |-> 16] >>

argNames(format) == {format[i].name : i \in 1..Len(format)}

\* _toBits with bitArray.append(bit) in place of bitArray.insert(0, bit)
_toBitsAppended(n, numBits) == [k \in 1..numBits |-> (n \div (2 ^ (k - 1))) % 2]

\* _toBits: bit i of n, for i = 0 .. numBits-1, each inserted at the front
RECURSIVE toBitsFrom(_, _, _, _)
toBitsFrom(n, numBits, i, bitArray) ==
    IF i >= numBits THEN bitArray
    ELSE toBitsFrom(n, numBits, i + 1, <<(n \div (2 ^ i)) % 2>> \o bitArray)

_toBits(n, numBits) == toBitsFrom(n, numBits, 0, <<>>)

\* _bitsToInt: the last element has position value 1
RECURSIVE bitsToIntFrom(_, _)
bitsToIntFrom(bitArray, i) ==
    IF i < 1 THEN 0
    ELSE bitArray[i] * (2 ^ (Len(bitArray) - i)) + bitsToIntFrom(bitArray, i - 1)

_bitsToInt(bitArray) == bitsToIntFrom(bitArray, Len(bitArray))

\* the bits of all fields, in declaration order
RECURSIVE formatBits(_, _, _)
formatBits(format, argValues, k) ==
    IF k > Len(format) THEN <<>>
    ELSE _toBits(argValues[format[k].name], format[k].bits)
            \o formatBits(format, argValues, k + 1)

\* struct.pack(">I", _bitsToInt(bits)): the most significant byte first.  The
\* four bytes are read off the 32 bits eight at a time (TLC's
\* integers are 32-bit signed and cannot hold the whole unsigned word).
structPackBigEndian(bits) ==
    [k \in 1..4 |-> _bitsToInt(SubSeq(bits, 8 * k - 7, 8 * k))]

byteCodeFromArgs(format, argValues) ==
    structPackBigEndian(formatBits(format, argValues, 1))

\* the loop of buildInstructionCode over zip(argCorresponding, argStrings),
\* each argFormat holding one name (no offset); e is what evaluate returned
\* for argument i
RECURSIVE buildArgs(_, _, _, _, _, _)
buildArgsWith(argCorresponding, argStrings, labels_, i, argValues, errs, e) ==
    IF e.exc # "none"
    THEN [exc |-> e.exc, argValues |-> argValues, errors |-> errs]
    ELSE buildArgs(argCorresponding, argStrings, labels_, i + 1,
                   (argCorresponding[i] :> e.value) @@ argValues, errs \o e.err)

buildArgs(argCorresponding, argStrings, labels_, i, argValues, errs) ==
    IF i > Len(argCorresponding) \/ i > Len(argStrings)
    THEN [exc |-> "none", argValues |-> argValues, errors |-> errs]
    ELSE buildArgsWith(argCorresponding, argStrings, labels_, i, argValues, errs,
                       evaluate(argStrings[i], labels_))

\* checkAndEncode zeroing every field as soon as an argument had an error
checkAndEncodeZeroOnError(format, b) ==
    LET invalid == Cardinality(DOMAIN b.argValues) # Len(format) \/ b.errors # <<>>
    IN  IF b.exc # "none"
        THEN [exc |-> b.exc, code |-> <<>>, errors |-> <<>>]
        ELSE [exc |-> "none",
              code |-> byteCodeFromArgs(IType,
                          IF invalid THEN [a \in argNames(format) |-> 0]
                          ELSE b.argValues),
              errors |-> b.errors]

\* the argument-count check of buildInstructionCode and the encoding, b being
\* the outcome of the loop
checkAndEncode(format, b) ==
    LET found == Cardinality(DOMAIN b.argValues)
        mismatch == found # Len(format)
    IN  IF b.exc # "none"
        THEN [exc |-> b.exc, code |-> <<>>, errors |-> <<>>]
        ELSE [exc |-> "none",
              code |-> byteCodeFromArgs(IType,
                          IF mismatch THEN [a \in argNames(format) |-> 0]
                          ELSE b.argValues),
              errors |-> IF mismatch
                         THEN Append(b.errors,
                                     <<"Expected ", Str(Len(format)),
                                       " arguments, but found ", Str(found)>>)
                         ELSE b.errors]

\* buildInstructionCode: [exc, code, errors]
buildInstructionCode(format, argCorresponding, argStrings, presetArgs, labels_) ==
    checkAndEncode(format,
        buildArgs(argCorresponding, argStrings, labels_, 1, presetArgs, <<>>))

(***************************************************************************)
(* class Assembly: what processing one line does to the instance.  An      *)
(* effect lists, in order, what the handlers of one processLine call do:   *)
(* exc the exception that leaves processLine ("none" when it returns),     *)
(* bytes the bytes given to addBytesToCode, errors and warnings the        *)
(* message texts recorded at the current line, labelNames the names given  *)
(* to onLabel, advance whether "self.currentLine += 1" is reached.         *)
(***************************************************************************)
NoEffect == [exc |-> "none", bytes |-> <<>>, errors |-> <<>>, warnings |-> <<>>,
             labelNames |-> <<>>, advance |-> FALSE]

Raises(e) == [NoEffect EXCEPT !.exc = e]

\* toWord packing most significant byte first on every host
toWordBigEndian(n, order) ==
    IF n < 0 THEN [exc |-> "struct.error", bytes |-> <<>>]
    ELSE [exc |-> "none",
          bytes |-> << (n \div 16777216) % 256, (n \div 65536) % 256,
                       (n \div 256) % 256, n % 256 >>]

\* toWord: struct.pack("I", n), native byte order; struct.error outside 0..2^32-1
toWord(n, order) ==
    IF n < 0 THEN [exc |-> "struct.error", bytes |-> <<>>]
    ELSE LET le == << n % 256, (n \div 256) % 256, (n \div 65536) % 256,
                      (n \div 16777216) % 256 >>
         IN  [exc |-> "none",
              bytes |-> IF order = "little" THEN le
                        ELSE [k \in 1..4 |-> le[5 - k]]]

\* onDirective warning about an unknown directive in each pass
onDirectiveWarnEachPass(directive, args, isFirstPass, order, warnUnknown) ==
    IF directive = <<"word">>
    THEN IF Len(args) = 0 THEN Raises("IndexError")
         ELSE IF pyInt(args[1]).exc # "none" THEN Raises(pyInt(args[1]).exc)
         ELSE IF toWord(pyInt(args[1]).value, order).exc # "none"
         THEN Raises(toWord(pyInt(args[1]).value, order).exc)
         ELSE [NoEffect EXCEPT !.bytes = toWord(pyInt(args[1]).value, order).bytes]
    ELSE IF warnUnknown
         THEN [NoEffect EXCEPT !.warnings =
                  << <<"Unknown assembler directive \"", directive, "\"">> >>]
         ELSE NoEffect

\* onDirective emitting the word in the first pass only
onDirectiveFirstPassOnly(directive, args, isFirstPass, order, warnUnknown) ==
    IF directive = <<"word">> /\ isFirstPass /\ Len(args) > 0
            /\ pyInt(args[1]).exc = "none" /\ pyInt(args[1]).value >= 0
    THEN [NoEffect EXCEPT !.bytes = toWord(pyInt(args[1]).value, order).bytes]
    ELSE NoEffect

\* onDirective
onDirective(directive, args, isFirstPass, order, warnUnknown) ==
    IF directive = <<"word">>
    THEN IF Len(args) = 0 THEN Raises("IndexError")
         ELSE LET n == pyInt(args[1])
              IN  IF n.exc # "none" THEN Raises(n.exc)
                  ELSE LET w == toWord(n.value, order)
                       IN  IF w.exc # "none" THEN Raises(w.exc)
                           ELSE [NoEffect EXCEPT !.bytes = w.bytes]
    ELSE IF warnUnknown /\ isFirstPass
         THEN [NoEffect EXCEPT !.warnings =
                  << <<"Unknown assembler directive \"", directive, "\"">> >>]
         ELSE NoEffect

\* onInstruction adding the code only when buildInstructionCode found no error
emitInstructionSkipOnError(b) ==
    IF b.exc # "none" THEN Raises(b.exc)
    ELSE [NoEffect EXCEPT !.errors = b.errors,
                          !.bytes = IF b.errors = <<>> THEN b.code ELSE <<>>]

\* onInstruction after buildInstructionCode returned b: trackErrorsToCurrentLine
\* and addBytesToCode
emitInstruction(b) ==
    IF b.exc # "none" THEN Raises(b.exc)
    ELSE [NoEffect EXCEPT !.errors = b.errors, !.bytes = b.code]

\* onInstruction evaluating its operands without the label table in both passes
onInstructionNoLabels(instruction, args, isFirstPass, labelTable) ==
    LET instr == IF instruction = <<"nop">> THEN <<"sll">> ELSE instruction
        argv == IF instruction = <<"nop">>
                THEN << <<"$zero">>, <<"$zero">>, <<"0">> >> ELSE args
    IN  IF instr = <<"addiu">>
        THEN emitInstruction(
                 buildInstructionCode(IType, <<"rt", "rs", "imm">>, argv,
                                      ("op" :> ADDIU_OP), NoneLabels))
        ELSE [NoEffect EXCEPT !.errors =
                 << <<"Unknown instruction \"", instr, "\"">> >>]

\* onInstruction evaluating its operands with the label table in both passes
onInstructionLabelsInPass1(instruction, args, isFirstPass, labelTable) ==
    LET instr == IF instruction = <<"nop">> THEN <<"sll">> ELSE instruction
        argv == IF instruction = <<"nop">>
                THEN << <<"$zero">>, <<"$zero">>, <<"0">> >> ELSE args
    IN  IF instr = <<"addiu">>
        THEN emitInstruction(
                 buildInstructionCode(IType, <<"rt", "rs", "imm">>, argv,
                                      ("op" :> ADDIU_OP), KnownLabels(labelTable)))
        ELSE [NoEffect EXCEPT !.errors =
                 << <<"Unknown instruction \"", instr, "\"">> >>]

\* onInstruction; "nop" re-enters with ("sll", ["$zero", "$zero", "0"])
onInstruction(instruction, args, isFirstPass, labelTable) ==
    LET instr == IF instruction = <<"nop">> THEN <<"sll">> ELSE instruction
        argv == IF instruction = <<"nop">>
                THEN << <<"$zero">>, <<"$zero">>, <<"0">> >> ELSE args
        labels_ == IF isFirstPass THEN NoneLabels ELSE KnownLabels(labelTable)
    IN  IF instr = <<"addiu">>
        THEN emitInstruction(
                 buildInstructionCode(IType, <<"rt", "rs", "imm">>, argv,
                                      ("op" :> ADDIU_OP), labels_))
        ELSE [NoEffect EXCEPT !.errors =
                 << <<"Unknown instruction \"", instr, "\"">> >>]

\* the argument list of a directive or instruction line: parts[1] split on ","
lineArgs(parts) ==
    stripAll(_split(IF Len(parts) > 1 THEN parts[2] ELSE <<>>, ","))

\* "self.currentLine += 1" at the end of processLine, reached when the
\* handler returned
thenAdvance(d) == [d EXCEPT !.advance = (d.exc = "none")]

\* processLine, directive branch, parts = _split(line, " ")
directiveLine(parts, isFirstPass, order, warnUnknown) ==
    IF Len(parts) = 0 THEN Raises("IndexError")
    ELSE thenAdvance(onDirective(parts[1], lineArgs(parts), isFirstPass, order,
                                 warnUnknown))

\* processLine, instruction branch, parts = _split(line, " ")
instructionLine(parts, isFirstPass, labelTable) ==
    thenAdvance(onInstruction(parts[1], lineArgs(parts), isFirstPass, labelTable))

\* processLine from "if line == ''" on: the kind of the line decides
classifyLine(line, isFirstPass, labelTable, order, warnUnknown) ==
    IF line = <<>> THEN NoEffect
    ELSE IF endswith(line, ":")
    THEN IF ~isFirstPass THEN NoEffect
         ELSE [NoEffect EXCEPT !.labelNames = <<rstrip(line, ":")>>,
                               !.advance = TRUE]
    ELSE IF startswith(line, ".")
    THEN directiveLine(_split(lstrip(line, "."), " "), isFirstPass, order,
                       warnUnknown)
    ELSE instructionLine(_split(line, " "), isFirstPass, labelTable)

\* processLine after _removeComments returned rc: None has no replace()
afterComments(rc, isFirstPass, labelTable, order, warnUnknown) ==
    IF rc.none THEN Raises("AttributeError")
    ELSE classifyLine(replaceTabs(rc.line), isFirstPass, labelTable, order,
                      warnUnknown)

\* processLine
processLine(rawLine, isFirstPass, labelTable, order, warnUnknown) ==
    afterComments(_removeComments(strip(rawLine)), isFirstPass, labelTable, order,
                  warnUnknown)

\* createError / createWarning / trackErrorsToCurrentLine: AssemblyMessage
\* objects carrying the current line
messagesAt(texts, line) ==
    [i \in 1..Len(texts) |-> [message |-> texts[i], line |-> line]]

\* onLabel binding the name to the position after the next word
RECURSIVE bindLabelsAfter(_, _, _)
bindLabelsAfter(table, names, pos) ==
    IF names = <<>> THEN table
    ELSE bindLabelsAfter((Head(names) :> pos + 4) @@ table, Tail(names), pos)

\* onLabel keeping the address a name already has
RECURSIVE bindLabelsFirstWins(_, _, _)
bindLabelsFirstWins(table, names, pos) ==
    IF names = <<>> THEN table
    ELSE bindLabelsFirstWins(table @@ (Head(names) :> pos), Tail(names), pos)

\* onLabel for each name in turn: labels[labelName] = currentPos
RECURSIVE bindLabels(_, _, _)
bindLabels(table, names, pos) ==
    IF names = <<>> THEN table
    ELSE bindLabels((Head(names) :> pos) @@ table, Tail(names), pos)

Repeat(x, n) == [i \in 1..n |-> x]

(***************************************************************************)
(* Source programs given to loadSourceFile.                                *)
(***************************************************************************)
Lines ==
    { <<>>,                                                  \* blank
      <<"#", " ", "note">>,                                \* comment only
      <<"main", ":">>,
      <<"L", ":">>,
      <<"addiu", " ", "$2", ",", "$0", ",", "5">>,
      <<" ", "addiu", " ", "$2", ",", " ", "$0", ",", " ", "5">>,
      <<"addiu", " ", "$sp", ",", "$sp", ",", "-8">>,
      <<"addiu", " ", "$2", ",", "$3", ",", "L">>,
      <<"addiu", " ", "$2", ",", "$3", ",", "undef">>,
      <<"addiu", " ", "$2", ",", "$3", ",", "5+">>,
      <<"addiu", " ", "5+", ",", "$sp", ",", "L">>,
      <<"addiu", " ", "$foo", ",", "$0", ",", "5">>,
      <<"addiu", " ", "$2", ",", "$0">>,
      <<"foo", " ", "$2">>,
      <<".", "word", " ", "42">>,
      <<".", "word">>,
      <<".", "word", " ", "x">>,
      <<".", "align", " ", "2">>,
      <<".", "ascii", " ", QUOTE, "a", "#", "b", QUOTE>> }

\* flContents.split("\n") always yields at least one line
Sources == UNION {[1..n -> Lines] : n \in 1..MaxLines}

(***************************************************************************)
(* The instance and its callers.                                           *)
(***************************************************************************)
DefaultEncArgs == [op |-> 0, rs |-> 0, rt |-> 0, imm |-> 0]

\* Assembly.__init__, on a host of either byte order
AsmInit ==
    /\ sourceLines = <<>>
    /\ labels = EmptyTable
    /\ machCode = <<>>
    /\ currentPos = 0
    /\ currentLine = 1
    /\ errors = <<>>
    /\ warnings = <<>>
    /\ polluted = FALSE
    /\ byteorder \in {"little", "big"}
    /\ pc = "idle"
    /\ lineIdx = 0
    /\ exception = "none"
    /\ nCalls = 0
    /\ errorOrigin = <<>>
    /\ warningOrigin = <<>>
    /\ pass1Pos = 0 - 1
    /\ pass1Len = 0 - 1
    /\ fileOut = <<>>
    /\ nExports = 0

\* a new instance with the settings __init__ gives it
Init ==
    /\ AsmInit
    /\ WARN_UNKNOWN_DIRECTIVE = TRUE
    /\ encArgs = DefaultEncArgs
    /\ encOut = <<>>

\* loadSourceFile
loadSourceFile ==
    /\ pc = "idle"
    /\ IF sourceLines # <<>>
       THEN /\ exception' = "Exception"
            /\ UNCHANGED sourceLines
       ELSE /\ exception' = "none"
            /\ \E src \in Sources : sourceLines' = src
    /\ UNCHANGED <<labels, machCode, currentPos, currentLine, errors, warnings,
                   polluted, byteorder, pc, lineIdx, nCalls, errorOrigin,
                   warningOrigin, pass1Pos, pass1Len, encArgs, encOut,
                   WARN_UNKNOWN_DIRECTIVE, fileOut, nExports>>

\* assemble without the one-shot guard
assembleUnguarded ==
    /\ pc = "idle"
    /\ nCalls < MaxCalls
    /\ nCalls' = nCalls + 1
    /\ exception' = "none"
    /\ machCode' = machCode \o Repeat(0, _IO_SPACE_SIZE)
    /\ currentPos' = currentPos + _IO_SPACE_SIZE
    /\ pc' = "Pass1Running"
    /\ lineIdx' = 1
    /\ UNCHANGED <<sourceLines, labels, currentLine, errors, warnings, polluted,
                   byteorder, errorOrigin, warningOrigin, pass1Pos, pass1Len,
                   encArgs, encOut,
                   WARN_UNKNOWN_DIRECTIVE, fileOut, nExports>>

\* assemble, up to the first line of pass 1: the one-shot guard, then the
\* I/O window runPass writes
assemble ==
    /\ pc = "idle"
    /\ nCalls < MaxCalls
    /\ nCalls' = nCalls + 1
    /\ IF polluted
       THEN /\ exception' = "Exception"
            /\ UNCHANGED <<machCode, currentPos, pc, lineIdx>>
       ELSE /\ exception' = "none"
            /\ machCode' = machCode \o Repeat(0, _IO_SPACE_SIZE)
            /\ currentPos' = currentPos + _IO_SPACE_SIZE
            /\ pc' = "Pass1Running"
            /\ lineIdx' = 1
    /\ UNCHANGED <<sourceLines, labels, currentLine, errors, warnings, polluted,
                   byteorder, errorOrigin, warningOrigin, pass1Pos, pass1Len,
                   encArgs, encOut,
                   WARN_UNKNOWN_DIRECTIVE, fileOut, nExports>>

\* what one processLine call leaves in the instance
applyEffect(eff) ==
    /\ exception' = eff.exc
    /\ pc' = IF eff.exc = "none" THEN pc ELSE "aborted"
    /\ lineIdx' = IF eff.exc = "none" THEN lineIdx + 1 ELSE lineIdx
    /\ machCode' = machCode \o eff.bytes
    /\ currentPos' = currentPos + Len(eff.bytes)
    /\ errors' = errors \o messagesAt(eff.errors, currentLine)
    /\ warnings' = warnings \o messagesAt(eff.warnings, currentLine)
    /\ labels' = bindLabels(labels, eff.labelNames, currentPos)
    /\ currentLine' = IF eff.advance THEN currentLine + 1 ELSE currentLine
    /\ errorOrigin' = errorOrigin \o Repeat(lineIdx, Len(eff.errors))
    /\ warningOrigin' = warningOrigin \o Repeat(lineIdx, Len(eff.warnings))

\* one iteration of the loop of runPass
runPassLine ==
    /\ pc \in {"Pass1Running", "Pass2Running"}
    /\ lineIdx <= Len(sourceLines)
    /\ applyEffect(processLine(sourceLines[lineIdx], pc = "Pass1Running", labels,
                               byteorder, WARN_UNKNOWN_DIRECTIVE))
    /\ UNCHANGED <<sourceLines, polluted, byteorder, nCalls, pass1Pos, pass1Len,
                   encArgs, encOut,
                   WARN_UNKNOWN_DIRECTIVE, fileOut, nExports>>

\* the reset between the passes clearing the label table as well
assembleSecondPassClearingLabels ==
    /\ pc = "Pass1Running"
    /\ lineIdx > Len(sourceLines)
    /\ pass1Pos' = currentPos
    /\ pass1Len' = Len(machCode)
    /\ currentPos' = _IO_SPACE_SIZE
    /\ currentLine' = 1
    /\ machCode' = Repeat(0, _IO_SPACE_SIZE)
    /\ labels' = EmptyTable
    /\ pc' = "Pass2Running"
    /\ lineIdx' = 1
    /\ UNCHANGED <<sourceLines, errors, warnings, polluted, byteorder,
                   exception, nCalls, errorOrigin, warningOrigin, encArgs, encOut,
                   WARN_UNKNOWN_DIRECTIVE, fileOut, nExports>>

\* the reset between the passes with a second pass that writes no I/O window
assembleSecondPassNoWindow ==
    /\ pc = "Pass1Running"
    /\ lineIdx > Len(sourceLines)
    /\ pass1Pos' = currentPos
    /\ pass1Len' = Len(machCode)
    /\ currentPos' = 0
    /\ currentLine' = 1
    /\ machCode' = <<>>
    /\ pc' = "Pass2Running"
    /\ lineIdx' = 1
    /\ UNCHANGED <<sourceLines, labels, errors, warnings, polluted, byteorder,
                   exception, nCalls, errorOrigin, warningOrigin, encArgs, encOut,
                   WARN_UNKNOWN_DIRECTIVE, fileOut, nExports>>

\* assemble between the passes: pass 1 is over, the variables are reset and
\* runPass(isFirstPass=False) writes its I/O window
assembleSecondPass ==
    /\ pc = "Pass1Running"
    /\ lineIdx > Len(sourceLines)
    /\ pass1Pos' = currentPos
    /\ pass1Len' = Len(machCode)
    /\ currentPos' = _IO_SPACE_SIZE
    /\ currentLine' = 1
    /\ machCode' = Repeat(0, _IO_SPACE_SIZE)
    /\ pc' = "Pass2Running"
    /\ lineIdx' = 1
    /\ UNCHANGED <<sourceLines, labels, errors, warnings, polluted, byteorder,
                   exception, nCalls, errorOrigin, warningOrigin, encArgs, encOut,
                   WARN_UNKNOWN_DIRECTIVE, fileOut, nExports>>

\* assemble(verbose=True) after pass 2: "for error in self.errors: print(...)",
\* the line numbers in the order the messages are printed
report(messages) == [i \in 1..Len(messages) |-> messages[i].line]

\* assemble after pass 2
assembleFinish ==
    /\ pc = "Pass2Running"
    /\ lineIdx > Len(sourceLines)
    /\ polluted' = TRUE
    /\ pc' = "idle"
    /\ UNCHANGED <<sourceLines, labels, machCode, currentPos, currentLine, errors,
                   warnings, byteorder, lineIdx, exception, nCalls, errorOrigin,
                   warningOrigin, pass1Pos, pass1Len, encArgs, encOut,
                   WARN_UNKNOWN_DIRECTIVE, fileOut, nExports>>

Next == loadSourceFile \/ assemble \/ runPassLine \/ assembleSecondPass
            \/ assembleFinish

Spec == Init /\ [][Next]_vars

(***************************************************************************)
(* Directives: programs of directive lines, assembled with the             *)
(* WARN_UNKNOWN_DIRECTIVE setting on or off.                               *)
(***************************************************************************)
DirectiveLines ==
    { <<>>,
      <<"L", ":">>,
      <<"addiu", " ", "$2", ",", "$0", ",", "5">>,
      <<".", "align", " ", "2">>,
      <<".", "ascii", " ", QUOTE, "a", "#", "b", QUOTE>>,
      <<".", "globl", " ", "main">>,
      <<".", "word", " ", "0">>,
      <<".", "word", " ", "42">>,
      <<".", "word", " ", "255">>,
      <<".", "word", " ", "256">>,
      <<".", "word", " ", "65536">>,
      <<".", "word", " ", "16777216">>,
      <<".", "word", " ", "2147483647">> }

DirectiveSources == UNION {[1..n -> DirectiveLines] : n \in 1..MaxLines}

\* loadSourceFile, given a program of DirectiveSources
loadDirectiveFile ==
    /\ pc = "idle"
    /\ IF sourceLines # <<>>
       THEN /\ exception' = "Exception"
            /\ UNCHANGED sourceLines
       ELSE /\ exception' = "none"
            /\ \E src \in DirectiveSources : sourceLines' = src
    /\ UNCHANGED <<labels, machCode, currentPos, currentLine, errors, warnings,
                   polluted, byteorder, pc, lineIdx, nCalls, errorOrigin,
                   warningOrigin, pass1Pos, pass1Len, encArgs, encOut,
                   WARN_UNKNOWN_DIRECTIVE, fileOut, nExports>>

\* the caller assigns the setting: assembly.WARN_UNKNOWN_DIRECTIVE = ...
setWarnUnknownDirective ==
    /\ pc = "idle"
    /\ WARN_UNKNOWN_DIRECTIVE' = ~WARN_UNKNOWN_DIRECTIVE
    /\ UNCHANGED <<sourceLines, labels, machCode, currentPos, currentLine,
                   errors, warnings, polluted, byteorder, pc, lineIdx, exception,
                   nCalls, errorOrigin, warningOrigin, pass1Pos, pass1Len,
                   encArgs, encOut, fileOut, nExports>>

DirNext == loadDirectiveFile \/ setWarnUnknownDirective \/ assemble
               \/ runPassLine \/ assembleSecondPass \/ assembleFinish

DirSpec == Init /\ [][DirNext]_vars

(***************************************************************************)
(* Instructions: programs of instruction lines of every mnemonic and       *)
(* operand count.                                                          *)
(***************************************************************************)
InstructionLines ==
    { <<>>,
      <<"L", ":">>,
      <<"addiu", " ", "$2", ",", "$0", ",", "5">>,
      <<"addiu", " ", "$2", ",", "$0">>,
      <<"addiu", " ", "$2", ",", "$0", ",", "5", ",", "3">>,
      <<"addiu", " ", "$foo", ",", "$0", ",", "5">>,
      <<"addiu", " ", "$32", ",", "$0", ",", "5">>,
      <<"foo", " ", "$2">>,
      <<"lui", " ", "$3", ",", " ", "0x1234">>,
      <<"nop">> }

InstructionSources == UNION {[1..n -> InstructionLines] : n \in 1..MaxLines}

\* loadSourceFile, given a program of InstructionSources
loadInstructionFile ==
    /\ pc = "idle"
    /\ IF sourceLines # <<>>
       THEN /\ exception' = "Exception"
            /\ UNCHANGED sourceLines
       ELSE /\ exception' = "none"
            /\ \E src \in InstructionSources : sourceLines' = src
    /\ UNCHANGED <<labels, machCode, currentPos, currentLine, errors, warnings,
                   polluted, byteorder, pc, lineIdx, nCalls, errorOrigin,
                   warningOrigin, pass1Pos, pass1Len, encArgs, encOut,
                   WARN_UNKNOWN_DIRECTIVE, fileOut, nExports>>

InstrNext == loadInstructionFile \/ assemble \/ runPassLine
                 \/ assembleSecondPass \/ assembleFinish

InstrSpec == Init /\ [][InstrNext]_vars

(***************************************************************************)
(* The relocation operators on their own: "__lo" and "__hi" of the scope   *)
(* of evaluate applied to 32-bit values.                                   *)
(***************************************************************************)
RelocValues ==
    {k * 65536 + j : k \in {0, 1, 2, 3, 255, 256, 4660, 32767},
                     j \in {0, 1, 2, 255, 256, 22136, 65535}}

RelocInit ==
    /\ AsmInit
    /\ WARN_UNKNOWN_DIRECTIVE = TRUE
    /\ encArgs \in [v : RelocValues]
    /\ encOut = <<>>

\* eval of "%lo(v)" and of "%hi(v)"
relocate ==
    /\ encOut = <<>>
    /\ encOut' = [lo |-> __lo(encArgs.v), hi |-> __hi(encArgs.v)]
    /\ UNCHANGED <<asmVars, encArgs>>

RelocSpec == RelocInit /\ [][relocate]_vars

(***************************************************************************)
(* Comment removal on its own: _removeComments applied to every line of    *)
(* letters, spaces, "#" and double quotes up to MaxCommentLen characters.  *)
(***************************************************************************)
CommentInputs ==
    UNION {[1..n -> {"a", " ", "#", QUOTE}] : n \in 0..MaxCommentLen}

CommentInit ==
    /\ AsmInit
    /\ WARN_UNKNOWN_DIRECTIVE = TRUE
    /\ encArgs \in CommentInputs
    /\ encOut = <<>>

\* self._removeComments(line)
removeComments ==
    /\ encOut = <<>>
    /\ encOut' = _removeComments(encArgs)
    /\ UNCHANGED <<asmVars, encArgs>>

CommentSpec == CommentInit /\ [][removeComments]_vars

(***************************************************************************)
(* Labels: programs of up to MaxLabelLines lines that define labels, some  *)
(* more than once, and use them before and after their definitions.        *)
(***************************************************************************)
LabelLines ==
    { <<>>,
      <<"L", ":">>,
      <<"main", ":">>,
      <<"addiu", " ", "$2", ",", "$3", ",", "L">>,
      <<".", "word", " ", "42">>,
      <<"foo", " ", "$2">> }

LabelSources == UNION {[1..n -> LabelLines] : n \in 1..MaxLabelLines}

\* loadSourceFile, given a program of LabelSources
loadLabelFile ==
    /\ pc = "idle"
    /\ IF sourceLines # <<>>
       THEN /\ exception' = "Exception"
            /\ UNCHANGED sourceLines
       ELSE /\ exception' = "none"
            /\ \E src \in LabelSources : sourceLines' = src
    /\ UNCHANGED <<labels, machCode, currentPos, currentLine, errors, warnings,
                   polluted, byteorder, pc, lineIdx, nCalls, errorOrigin,
                   warningOrigin, pass1Pos, pass1Len, encArgs, encOut,
                   WARN_UNKNOWN_DIRECTIVE, fileOut, nExports>>

LabelNext == loadLabelFile \/ assemble \/ runPassLine \/ assembleSecondPass
                 \/ assembleFinish

LabelSpec == Init /\ [][LabelNext]_vars

(***************************************************************************)
(* Export of the binary file.                                              *)
(***************************************************************************)
\* struct.pack("IIII", ...): four native-order words
packWords(ns, order) ==
    toWord(ns[1], order).bytes \o toWord(ns[2], order).bytes
        \o toWord(ns[3], order).bytes \o toWord(ns[4], order).bytes

\* makeHeader
makeHeader(programSize, programCounter, stackSize, heapSize, order) ==
    LET totalMemorySize == programSize + stackSize + heapSize
        stackPointer == programSize + stackSize
    IN  packWords(<<MAGIC, programCounter, stackPointer, totalMemorySize>>, order)

\* findEntryPoint: self.labels["main"], KeyError when the label is missing
findEntryPoint(labelTable) ==
    IF <<"main">> \in DOMAIN labelTable
    THEN [exc |-> "none", value |-> labelTable[<<"main">>]]
    ELSE [exc |-> "KeyError", value |-> 0]

\* exportAsBinary writing a header with entry point 0 when "main" is missing
exportAsBinaryDefaultEntry ==
    /\ pc \in {"idle", "aborted"}
    /\ nExports < MaxExports
    /\ nExports' = nExports + 1
    /\ exception' = "none"
    /\ fileOut' = makeHeader(Len(machCode), findEntryPoint(labels).value,
                             MAX_STACK_SIZE, MAX_HEAP_SIZE, byteorder)
                      \o machCode
    /\ UNCHANGED <<sourceLines, labels, machCode, currentPos, currentLine,
                   errors, warnings, polluted, byteorder, pc, lineIdx, nCalls,
                   errorOrigin, warningOrigin, pass1Pos, pass1Len, encArgs,
                   encOut, WARN_UNKNOWN_DIRECTIVE>>

\* exportAsBinary: open(filename, "wb") empties the file, then the header is
\* built (findEntryPoint may raise) and header + image are written
exportAsBinary ==
    /\ pc \in {"idle", "aborted"}
    /\ nExports < MaxExports
    /\ nExports' = nExports + 1
    /\ IF findEntryPoint(labels).exc # "none"
       THEN /\ exception' = findEntryPoint(labels).exc
            /\ fileOut' = <<>>
       ELSE /\ exception' = "none"
            /\ fileOut' = makeHeader(Len(machCode), findEntryPoint(labels).value,
                                     MAX_STACK_SIZE, MAX_HEAP_SIZE, byteorder)
                              \o machCode
    /\ UNCHANGED <<sourceLines, labels, machCode, currentPos, currentLine,
                   errors, warnings, polluted, byteorder, pc, lineIdx, nCalls,
                   errorOrigin, warningOrigin, pass1Pos, pass1Len, encArgs,
                   encOut, WARN_UNKNOWN_DIRECTIVE>>

ExportLines ==
    { <<>>,
      <<"main", ":">>,
      <<"L", ":">>,
      <<"addiu", " ", "$2", ",", "$0", ",", "5">>,
      <<".", "word", " ", "42">>,
      <<".", "word">>,
      <<"foo", " ", "$2">> }

ExportSources == UNION {[1..n -> ExportLines] : n \in 1..MaxLines}

\* loadSourceFile, given a program of ExportSources
loadExportFile ==
    /\ pc = "idle"
    /\ IF sourceLines # <<>>
       THEN /\ exception' = "Exception"
            /\ UNCHANGED sourceLines
       ELSE /\ exception' = "none"
            /\ \E src \in ExportSources : sourceLines' = src
    /\ UNCHANGED <<labels, machCode, currentPos, currentLine, errors, warnings,
                   polluted, byteorder, pc, lineIdx, nCalls, errorOrigin,
                   warningOrigin, pass1Pos, pass1Len, encArgs, encOut,
                   WARN_UNKNOWN_DIRECTIVE, fileOut, nExports>>

ExportNext == loadExportFile \/ assemble \/ runPassLine \/ assembleSecondPass
                  \/ assembleFinish \/ exportAsBinary

ExportSpec == Init /\ [][ExportNext]_vars

(***************************************************************************)
(* The encoder on its own: byteCodeFromArgs of the I-type format applied   *)
(* to field values of either sign, inside and outside the field widths.    *)
(***************************************************************************)
OpValues == {0 - 1, 0, 9, 35, 63, 64, 73}
RegValues == {0 - 3, 0, 2, 29, 31, 32, 37}
ImmValues == {0 - 32769, 0 - 32768, 0 - 8, 0 - 1, 0, 5, 4660, 65535, 65536, 70000}

EncInit ==
    /\ AsmInit
    /\ WARN_UNKNOWN_DIRECTIVE = TRUE
    /\ encArgs \in [op : OpValues, rs : RegValues, rt : RegValues, imm : ImmValues]
    /\ encOut = <<>>

encode ==
    /\ encOut = <<>>
    /\ encOut' = byteCodeFromArgs(IType, encArgs)
    /\ UNCHANGED <<asmVars, encArgs>>

EncSpec == EncInit /\ [][encode]_vars

(***************************************************************************)
(* Properties.                                                             *)
(***************************************************************************)
\* assemble() has run both passes over the loaded source and returned
Finalized ==
    /\ polluted
    /\ pc = "idle"
    /\ sourceLines # <<>>
    /\ lineIdx = Len(sourceLines) + 1

\* the four bytes, most significant first, of the word
\* op*2^26 + rs*2^21 + rt*2^16 + imm, each field reduced modulo its width
WordBytes(op, rs, rt, imm) ==
    LET upper == (op % 64) * 1024 + (rs % 32) * 32 + (rt % 32)
        lower == imm % 65536
    IN  << upper \div 256, upper % 256, lower \div 256, lower % 256 >>

\* C1: when assemble() has run both passes, the byte cursor and the image
\* length at the end of pass 2 equal those at the end of pass 1.
C1_TwoPassLength ==
    polluted => (currentPos = pass1Pos /\ Len(machCode) = pass1Len)

\* C1 witness: both passes ran over a program with a label, emitted bytes and
\* a diagnostic.
C1_Witness ==
    /\ Finalized
    /\ DOMAIN labels # {}
    /\ Len(machCode) > _IO_SPACE_SIZE
    /\ Len(errors) > 0

\* C2: in both passes processing one physical line advances currentLine by
\* exactly one, so when the k-th physical line is processed (and after the
\* last one, k = number of lines + 1) the counter equals k.
C2_CounterEqualsLine ==
    pc \in {"Pass1Running", "Pass2Running"} => currentLine = lineIdx

\* C3: every recorded error and warning carries the 1-based physical number
\* of the source line whose processing recorded it.
C3_DiagnosticLine ==
    /\ \A k \in 1..Len(errors) : errors[k].line = errorOrigin[k]
    /\ \A k \in 1..Len(warnings) : warnings[k].line = warningOrigin[k]

\* an addiu line whose immediate names a label no program of Sources defines
UndefinedLabelLine == <<"addiu", " ", "$2", ",", "$3", ",", "undef">>

\* C4: after assemble() has run over a program holding an addiu line whose
\* immediate names a label defined nowhere, the call has not raised and the
\* final error list holds exactly one error recorded for that line.
C4_OneErrorPerUndefinedLabel ==
    Finalized =>
        \A k \in 1..Len(sourceLines) :
            sourceLines[k] = UndefinedLabelLine =>
                /\ exception = "none"
                /\ Cardinality({i \in 1..Len(errors) : errorOrigin[i] = k}) = 1

\* an operand the evaluator cannot resolve: not an expression, or an
\* identifier the label table does not hold
Unresolvable(arg) ==
    /\ Len(arg) = 1
    /\ \/ arg[1] \in MalformedAtoms
       \/ arg[1] \in IdentifierAtoms /\ arg \notin DOMAIN labels

\* the value of an operand: 0 when unresolvable, else the register number,
\* the literal or the label address
FieldValue(arg) ==
    IF Unresolvable(arg) THEN 0
    ELSE CASE arg[1] = "$0" -> 0 [] arg[1] = "$2" -> 2 [] arg[1] = "$3" -> 3
           [] arg[1] = "$sp" -> 29 [] arg[1] = "$zero" -> 0
           [] arg[1] \in DOMAIN DecimalLiterals -> DecimalLiterals[arg[1]]
           [] arg[1] \in IdentifierAtoms -> labels[arg]

\* the operands "addiu a,b,c" is written with
AddiuOperands(rawLine) ==
    LET parts == _split(strip(rawLine), " ")
    IN  IF Len(parts) = 2 /\ parts[1] = <<"addiu">> THEN _split(parts[2], ",")
        ELSE <<>>

\* line k is an addiu line of three operands, one of them unresolvable and
\* none an unknown register
UnresolvedOperandLine(k) ==
    LET ops == AddiuOperands(sourceLines[k])
    IN  /\ Len(ops) = 3
        /\ \E j \in 1..3 : Unresolvable(ops[j])
        /\ \A j \in 1..3 : Len(ops[j]) = 1 /\ ops[j][1] # "$foo"

\* C5: in pass 2 an addiu line with an operand that cannot be resolved
\* (undefined label, malformed expression) appends exactly one 4-byte word
\* whose field for that operand is 0 while the opcode and the fields of the
\* resolvable operands keep their values.
C5_UnresolvedFieldZero ==
    [][(pc = "Pass2Running" /\ lineIdx <= Len(sourceLines)
            /\ UnresolvedOperandLine(lineIdx))
        => LET ops == AddiuOperands(sourceLines[lineIdx])
           IN  /\ exception' = "none"
               /\ machCode' = machCode \o WordBytes(ADDIU_OP, FieldValue(ops[2]),
                                                    FieldValue(ops[1]),
                                                    FieldValue(ops[3]))]_vars

\* C5 witness: pass 2 has processed such a line with a non-empty label table
\* and recorded its error.
C5_Witness ==
    /\ pc = "Pass2Running"
    /\ lineIdx > 1
    /\ UnresolvedOperandLine(lineIdx - 1)
    /\ DOMAIN labels # {}
    /\ Len(errors) > 0
    /\ errorOrigin[Len(errors)] = lineIdx - 1
    /\ Len(machCode) = _IO_SPACE_SIZE + 4

\* the source "main:" / " addiu $2, $0, 5"
ScenarioSource ==
    << <<"main", ":">>,
       <<" ", "addiu", " ", "$2", ",", " ", "$0", ",", " ", "5">> >>

\* C6: assembling ScenarioSource binds main to 256, records no error and
\* yields 256 zero bytes followed by the one word opcode 0b001001, rs 0,
\* rt 2, imm 5, most significant byte first.
C6_Scenario ==
    (Finalized /\ sourceLines = ScenarioSource) =>
        /\ labels = (<<"main">> :> _IO_SPACE_SIZE)
        /\ errors = <<>>
        /\ machCode = Repeat(0, _IO_SPACE_SIZE) \o <<36, 2, 0, 5>>

\* C7: a first assemble() over a loaded source never raises, whatever
\* recoverable problems its lines hold: no pass is left by an exception.
C7_AssembleNeverRaises ==
    /\ pc # "aborted"
    /\ pc \in {"Pass1Running", "Pass2Running"} => exception = "none"

\* C8: once assemble() has completed on an instance, a later assemble() raises
\* before any pass and leaves labels, image, cursor and diagnostics as they
\* were.
C8_SecondCallRaises ==
    [][(polluted /\ nCalls' = nCalls + 1)
        => /\ exception' = "Exception"
           /\ pc' = "idle"
           /\ labels' = labels
           /\ machCode' = machCode
           /\ currentPos' = currentPos
           /\ currentLine' = currentLine
           /\ errors' = errors
           /\ warnings' = warnings
           /\ polluted']_vars

\* C8 witness: a second call was made on an instance finalized over a
\* program that emitted bytes, and it raised.
C8_Witness ==
    /\ Finalized
    /\ nCalls = 2
    /\ exception = "Exception"
    /\ Len(machCode) > _IO_SPACE_SIZE

\* C9: assemble() on an instance with no source loaded raises a usage error
\* and runs no pass.
C9_UnloadedAssembleRaises ==
    (sourceLines = <<>> /\ nCalls >= 1) =>
        /\ exception = "Exception"
        /\ pc = "idle"
        /\ machCode = <<>>
        /\ ~polluted

\* C10: for all integer field values the I-type encoder yields the bytes,
\* most significant first, of (op mod 2^6)*2^26 + (rs mod 2^5)*2^21 +
\* (rt mod 2^5)*2^16 + (imm mod 2^16).
C10_EncodeModWidth ==
    encOut # <<>> =>
        encOut = WordBytes(encArgs.op, encArgs.rs, encArgs.rt, encArgs.imm)

\* C10 witness: a word was encoded from a negative immediate, a negative
\* register value and an opcode wider than its field.
C10_Witness ==
    /\ encOut # <<>>
    /\ encArgs.imm < 0
    /\ encArgs.rs < 0
    /\ encArgs.op > 63

\* the first space-separated token of a source line
MnemonicOf(rawLine) ==
    LET parts == _split(strip(rawLine), " ")
    IN  IF parts = <<>> THEN <<>> ELSE parts[1]

\* mnemonics onInstruction has no branch for
UnknownMnemonics == {<<"foo">>, <<"lui">>}

\* the pass is about to process physical line lineIdx
AtLine ==
    /\ pc \in {"Pass1Running", "Pass2Running"}
    /\ lineIdx <= Len(sourceLines)

\* C11: in pass 1 and in pass 2, processing a line whose mnemonic is not
\* recognized does not abort the pass, appends no bytes, leaves the byte
\* cursor unchanged and logs one error carrying that line's number.
C11_UnknownMnemonic ==
    [][(AtLine /\ MnemonicOf(sourceLines[lineIdx]) \in UnknownMnemonics)
        => /\ exception' = "none"
           /\ pc' = pc
           /\ machCode' = machCode
           /\ currentPos' = currentPos
           /\ Len(errors') = Len(errors) + 1
           /\ errors'[Len(errors')].line = lineIdx]_vars

\* C11 without the line number: no abort, no bytes, cursor unchanged, one
\* error logged
C11_ExceptLineNumber ==
    [][(AtLine /\ MnemonicOf(sourceLines[lineIdx]) \in UnknownMnemonics)
        => /\ exception' = "none"
           /\ pc' = pc
           /\ machCode' = machCode
           /\ currentPos' = currentPos
           /\ Len(errors') = Len(errors) + 1
           /\ errors'[Len(errors')].message[1] = "Unknown instruction \""]_vars

\* C12: in either pass an addiu line written with a number of operands other
\* than three (fewer or more) does not abort, records an argument-count error
\* and appends the 4-byte word whose fields are all zero.
C12_OperandCount ==
    [][(AtLine /\ MnemonicOf(sourceLines[lineIdx]) = <<"addiu">>
            /\ Len(AddiuOperands(sourceLines[lineIdx])) # 3)
        => /\ exception' = "none"
           /\ machCode' = machCode \o <<0, 0, 0, 0>>
           /\ Len(errors') = Len(errors) + 1
           /\ errors'[Len(errors')].message[1] = "Expected "]_vars

\* C12 restricted to fewer than three operands
C12_FewerOperands ==
    [][(AtLine /\ MnemonicOf(sourceLines[lineIdx]) = <<"addiu">>
            /\ Len(AddiuOperands(sourceLines[lineIdx])) < 3)
        => /\ exception' = "none"
           /\ machCode' = machCode \o <<0, 0, 0, 0>>
           /\ Len(errors') = Len(errors) + 1
           /\ errors'[Len(errors')].message[1] = "Expected "]_vars

\* the source line "lui $3, 0x1234"
LuiLine == <<"lui", " ", "$3", ",", " ", "0x1234">>

\* C13: processing the line "lui $3, 0x1234" appends exactly one 4-byte word
\* whose immediate field is 0x1234, whose rt field is 3 and whose rs field
\* (not given in the source) is 0, and records no error.
C13_LuiWord ==
    [][(AtLine /\ sourceLines[lineIdx] = LuiLine)
        => /\ exception' = "none"
           /\ errors' = errors
           /\ Len(machCode') = Len(machCode) + 4
           /\ machCode'[Len(machCode) + 3] = 18
           /\ machCode'[Len(machCode) + 4] = 52
           /\ machCode'[Len(machCode) + 2] = 3
           /\ machCode'[Len(machCode) + 1] % 4 = 0]_vars

\* C14: in either pass a "nop" line appends exactly one 4-byte word and
\* records no error.
C14_NopWord ==
    [][(AtLine /\ sourceLines[lineIdx] = <<"nop">>)
        => /\ exception' = "none"
           /\ errors' = errors
           /\ Len(machCode') = Len(machCode) + 4]_vars

\* the integer a line ".word n" is written with, n one of DecimalLiterals
IsWordLine(rawLine) ==
    /\ Len(rawLine) = 4
    /\ rawLine[1] = "." /\ rawLine[2] = "word" /\ rawLine[3] = " "
    /\ rawLine[4] \in DOMAIN DecimalLiterals

\* the integer whose native-order encoding on this host is the 4 bytes b
NativeValue(b) ==
    IF byteorder = "little"
    THEN b[1] + 256 * b[2] + 65536 * b[3] + 16777216 * b[4]
    ELSE b[4] + 256 * b[3] + 65536 * b[2] + 16777216 * b[1]

\* C15: in either pass a line ".word n", n >= 0, appends exactly the 4 bytes
\* that encode n in the host's native byte order and advances the cursor by
\* 4; on a little-endian host ".word 42" appends 42,0,0,0.
C15_WordNativeOrder ==
    [][(AtLine /\ IsWordLine(sourceLines[lineIdx])
            /\ DecimalLiterals[sourceLines[lineIdx][4]] >= 0)
        => /\ exception' = "none"
           /\ currentPos' = currentPos + 4
           /\ Len(machCode') = Len(machCode) + 4
           /\ SubSeq(machCode', 1, Len(machCode)) = machCode
           /\ LET b == SubSeq(machCode', Len(machCode) + 1, Len(machCode) + 4)
                  n == DecimalLiterals[sourceLines[lineIdx][4]]
              IN  /\ \A i \in 1..4 : b[i] \in 0..255
                  /\ NativeValue(b) = n
                  /\ (n = 42 /\ byteorder = "little") => b = <<42, 0, 0, 0>>]_vars

\* C15 witness: on a little-endian host pass 2 has appended the word of
\* ".word 16777216" after the word of ".word 42".
C15_Witness ==
    /\ pc = "Pass2Running"
    /\ byteorder = "little"
    /\ lineIdx = 3
    /\ sourceLines = << <<".", "word", " ", "42">>,
                        <<".", "word", " ", "16777216">> >>
    /\ SubSeq(machCode, _IO_SPACE_SIZE + 1, Len(machCode))
           = <<42, 0, 0, 0, 0, 0, 0, 1>>
    /\ currentPos = _IO_SPACE_SIZE + 8

\* the name of the directive a line holds, <<>> when it is no directive line
DirectiveOf(rawLine) ==
    IF startswith(strip(rawLine), ".")
    THEN _split(lstrip(strip(rawLine), "."), " ")[1]
    ELSE <<>>

\* line k is a directive line other than ".word"
OtherDirectiveLine(k) == DirectiveOf(sourceLines[k]) \notin {<<>>, <<"word">>}

C16_WitnessOn ==
    /\ Finalized
    /\ WARN_UNKNOWN_DIRECTIVE
    /\ Len(sourceLines) = 2
    /\ \A k \in 1..2 : OtherDirectiveLine(k)
    /\ Len(warnings) = 2

\* the file holds a 16-byte header whose magic bytes are m, followed by the
\* whole image; the header fields are the entry address, image length +
\* stack size and image length + stack size + heap size, and the entry address
\* lies between the I/O window size and the image length
HeaderAndImage(file, m) ==
    /\ Len(file) = 16 + Len(machCode)
    /\ SubSeq(file, 17, Len(file)) = machCode
    /\ SubSeq(file, 1, 4) = m
    /\ LET program_counter == NativeValue(SubSeq(file, 5, 8))
           stack_pointer == NativeValue(SubSeq(file, 9, 12))
           alloc_size == NativeValue(SubSeq(file, 13, 16))
       IN  /\ program_counter = labels[<<"main">>]
           /\ stack_pointer = Len(machCode) + MAX_STACK_SIZE
           /\ alloc_size = Len(machCode) + MAX_STACK_SIZE + MAX_HEAP_SIZE
           /\ stack_pointer <= alloc_size
           /\ program_counter >= _IO_SPACE_SIZE
           /\ program_counter <= Len(machCode)

\* the bytes "SBIN"
SBIN == <<83, 66, 73, 78>>

\* C17: exporting an assembled program that defines "main" writes a 16-byte
\* header followed by the whole image, with magic bytes "SBIN",
\* program_counter = labels["main"], stack_pointer = image length + stack
\* size, alloc_size = image length + stack size + heap size, stack_pointer <=
\* alloc_size and I/O window size <= program_counter <= image length.
C17_ExportLayout ==
    [][(Finalized /\ <<"main">> \in DOMAIN labels /\ nExports' = nExports + 1)
        => /\ exception' = "none"
           /\ HeaderAndImage(fileOut', SBIN)]_vars

\* C17 with the magic bytes in the host's order: "SBIN" on a little-endian
\* host, "NIBS" on a big-endian one
C17_NativeMagic ==
    [][(Finalized /\ <<"main">> \in DOMAIN labels /\ nExports' = nExports + 1)
        => /\ exception' = "none"
           /\ HeaderAndImage(fileOut', IF byteorder = "little" THEN SBIN
                                       ELSE <<78, 73, 66, 83>>)]_vars

\* C18: exportAsBinary on an instance whose label table has no "main" raises,
\* leaves the file without any byte, and leaves labels, image, cursor and
\* diagnostics as they were.
C18_ExportWithoutEntry ==
    [][(<<"main">> \notin DOMAIN labels /\ nExports' = nExports + 1)
        => /\ exception' = "KeyError"
           /\ fileOut' = <<>>
           /\ labels' = labels
           /\ machCode' = machCode
           /\ currentPos' = currentPos
           /\ errors' = errors
           /\ warnings' = warnings]_vars

\* C18 witness: the export of a program assembled without "main", with
\* emitted bytes in its image and an error in its list, raised and wrote
\* nothing.
C18_Witness ==
    /\ Finalized
    /\ nExports = 1
    /\ exception = "KeyError"
    /\ <<"main">> \notin DOMAIN labels
    /\ Len(machCode) > _IO_SPACE_SIZE
    /\ Len(errors) > 0
    /\ fileOut = <<>>

\* an addiu line whose immediate names the label L
LabelRefLine == <<"addiu", " ", "$2", ",", "$3", ",", "L">>

\* C19: in pass 2 an addiu line whose immediate names a label the program
\* defines, before or after that line, appends the word whose immediate field
\* is the address the label table holds for it, records no error and leaves
\* the table built by pass 1 as it is.
C19_LabelAddress ==
    [][(pc = "Pass2Running" /\ lineIdx <= Len(sourceLines)
            /\ sourceLines[lineIdx] = LabelRefLine /\ <<"L">> \in DOMAIN labels)
        => /\ exception' = "none"
           /\ errors' = errors
           /\ labels' = labels
           /\ machCode' = machCode \o WordBytes(ADDIU_OP, 3, 2, labels[<<"L">>])]_vars

\* C19 witness: a program that uses L on line 1 and defines it on line 2 was
\* assembled: L is 260, the word carries 260 and no error was recorded.
C19_Witness ==
    /\ Finalized
    /\ sourceLines = <<LabelRefLine, <<"L", ":">> >>
    /\ labels = (<<"L">> :> _IO_SPACE_SIZE + 4)
    /\ machCode = Repeat(0, _IO_SPACE_SIZE) \o <<36, 98, 1, 4>>
    /\ errors = <<>>

\* a program that defines L on line 1 and uses it on line 2 was assembled:
\* L is 256, the word carries 256 and no error was recorded
C19_WitnessBackward ==
    /\ Finalized
    /\ sourceLines = << <<"L", ":">>, LabelRefLine>>
    /\ labels = (<<"L">> :> _IO_SPACE_SIZE)
    /\ machCode = Repeat(0, _IO_SPACE_SIZE) \o <<36, 98, 1, 0>>
    /\ errors = <<>>

\* C20: no step of pass 1 records an undefined-label error, and in pass 1 an
\* addiu line whose immediate is a label name, defined or not, appends the
\* word whose immediate field is 0 and records no error.
C20_Pass1Placeholders ==
    [][(pc = "Pass1Running" /\ lineIdx <= Len(sourceLines))
        => /\ \A k \in (Len(errors) + 1)..Len(errors') :
                  errors'[k].message[1] # "Label \""
           /\ sourceLines[lineIdx] \in {LabelRefLine, UndefinedLabelLine}
                => /\ exception' = "none"
                   /\ errors' = errors
                   /\ machCode' = machCode \o WordBytes(ADDIU_OP, 3, 2, 0)]_vars

\* C20 witness: pass 1 has processed a use of L on the line after the one
\* that defined it, and appended the word with immediate 0.
C20_Witness ==
    /\ pc = "Pass1Running"
    /\ lineIdx = 3
    /\ sourceLines = << <<"L", ":">>, LabelRefLine>>
    /\ labels = (<<"L">> :> _IO_SPACE_SIZE)
    /\ machCode = Repeat(0, _IO_SPACE_SIZE) \o <<36, 98, 0, 0>>
    /\ errors = <<>>

\* pass 2 over a program with a defined label has recorded an
\* undefined-label error
C20_WitnessPass2 ==
    /\ pc = "Pass2Running"
    /\ Len(errors) > 0
    /\ errors[Len(errors)].message[1] = "Label \""

\* C21: for a 32-bit value v, lo(v) is v mod 2^16, hi(v) is
\* (v div 2^16) mod 2^16, and hi(v) * 2^16 + lo(v) = v.
C21_HiLo ==
    encOut # <<>> =>
        /\ encOut.lo = encArgs.v % 65536
        /\ encOut.hi = (encArgs.v \div 65536) % 65536
        /\ encOut.hi * 65536 + encOut.lo = encArgs.v

\* the hi half of C21: hi(v) is (v div 2^16) mod 2^16
C21_HiOnly == encOut # <<>> => encOut.hi = (encArgs.v \div 65536) % 65536

\* what lo does: lo(v) is v itself
C21_LoIsIdentity == encOut # <<>> => encOut.lo = encArgs.v

\* addiu lines whose first operand is a register that is neither an alias
\* nor an index in 0..31
UnknownRegisterLines ==
    { <<"addiu", " ", "$foo", ",", "$0", ",", "5">>,
      <<"addiu", " ", "$32", ",", "$0", ",", "5">> }

\* C22: in either pass an addiu line whose rt operand is an unknown register
\* ($foo, $32) does not abort: the register evaluates to 0, so the word of
\* rt 0, rs 0, imm 5 is appended, and one error is recorded for the line.
C22_UnknownRegister ==
    [][(AtLine /\ sourceLines[lineIdx] \in UnknownRegisterLines)
        => /\ exception' = "none"
           /\ Len(errors') = Len(errors) + 1
           /\ machCode' = machCode \o WordBytes(ADDIU_OP, 0, 0, 5)]_vars

\* what the line with $32 does: no abort, no error, and the word of rt 32
\* reduced modulo 2^5
C22_Index32 ==
    [][(AtLine /\ sourceLines[lineIdx] = <<"addiu", " ", "$32", ",", "$0", ",", "5">>)
        => /\ exception' = "none"
           /\ errors' = errors
           /\ machCode' = machCode \o WordBytes(ADDIU_OP, 0, 32, 5)]_vars

\* what the line with $foo does: the pass is left by ValueError
C22_AliasFoo ==
    [][(AtLine /\ sourceLines[lineIdx] = <<"addiu", " ", "$foo", ",", "$0", ",", "5">>)
        => /\ exception' = "ValueError"
           /\ pc' = "aborted"
           /\ errors' = errors
           /\ machCode' = machCode]_vars

\* the numbers of ns never decrease
NonDecreasing(ns) == \A i \in 1..Len(ns) : \A j \in i..Len(ns) : ns[i] <= ns[j]

\* C23: when assemble() has returned, the errors it reported are in
\* non-decreasing order of line number, and so are the warnings.
C23_ReportOrder ==
    Finalized => NonDecreasing(report(errors)) /\ NonDecreasing(report(warnings))

\* the warnings half of C23
C23_WarningsOrdered == Finalized => NonDecreasing(report(warnings))

\* the number of double quotes among the first n characters of line
RECURSIVE QuotesBefore(_, _)
QuotesBefore(line, n) ==
    IF n = 0 THEN 0
    ELSE QuotesBefore(line, n - 1) + (IF line[n] = QUOTE THEN 1 ELSE 0)

\* the positions of the "#" of line that are outside every double-quoted string
FreeHashes(line) ==
    {i \in 1..Len(line) : line[i] = "#" /\ QuotesBefore(line, i - 1) % 2 = 0}

\* the least number of a non-empty set of numbers
Least(S) == CHOOSE i \in S : \A j \in S : i <= j

\* every string of the line is closed
QuotesClosed(line) == QuotesBefore(line, Len(line)) % 2 = 0

\* C24: for a line whose strings are closed, _removeComments returns the text
\* before the first "#" outside a string, and returns the line unchanged when
\* every "#" is inside a string or there is none.
C24_RemoveComments ==
    (encOut # <<>> /\ QuotesClosed(encArgs)) =>
        /\ ~encOut.none
        /\ encOut.line = IF FreeHashes(encArgs) = {} THEN encArgs
                         ELSE SubSeq(encArgs, 1, Least(FreeHashes(encArgs)) - 1)

\* C24 without its middle case: the cut at the first "#" outside a string,
\* and the line without "#" returned unchanged
C24_CutAndNoHash ==
    (encOut # <<>> /\ QuotesClosed(encArgs)
        /\ (FreeHashes(encArgs) # {} \/ \A i \in 1..Len(encArgs) : encArgs[i] # "#")) =>
        /\ ~encOut.none
        /\ encOut.line = IF FreeHashes(encArgs) = {} THEN encArgs
                         ELSE SubSeq(encArgs, 1, Least(FreeHashes(encArgs)) - 1)

\* what the middle case does: a line whose every "#" is inside a string
\* yields None
C24_QuotedHashGivesNone ==
    (encOut # <<>> /\ QuotesClosed(encArgs) /\ FreeHashes(encArgs) = {}
        /\ \E i \in 1..Len(encArgs) : encArgs[i] = "#") => encOut.none

\* the line defines a label: a name followed by ":"
IsLabelLine(rawLine) == Len(rawLine) = 2 /\ rawLine[2] = ":"

\* the line emits one word: an addiu line or ".word n" with n >= 0
EmitsWord(rawLine) ==
    \/ MnemonicOf(rawLine) = <<"addiu">>
    \/ IsWordLine(rawLine) /\ DecimalLiterals[rawLine[4]] >= 0

\* the address after the lines before line k: the I/O window and 4 bytes for
\* each of those lines that emits a word
AddressOfLine(k) ==
    _IO_SPACE_SIZE
        + 4 * Cardinality({j \in 1..(k - 1) : EmitsWord(sourceLines[j])})

\* C25: in pass 1 a label definition line binds the name to the cursor, which
\* is 256 plus the bytes emitted by the lines before it (256 on the first
\* line), and moves neither the cursor nor the image; when assemble() returns
\* every label address is between 256 and the image length.
C25_LabelBinding ==
    [][/\ (pc = "Pass1Running" /\ lineIdx <= Len(sourceLines)
              /\ IsLabelLine(sourceLines[lineIdx]))
            => /\ labels' = (<<sourceLines[lineIdx][1]>> :> currentPos) @@ labels
               /\ currentPos = AddressOfLine(lineIdx)
               /\ lineIdx = 1 => labels'[<<sourceLines[1][1]>>] = _IO_SPACE_SIZE
               /\ currentPos' = currentPos
               /\ machCode' = machCode
       /\ (polluted' /\ ~polluted)
            => \A n \in DOMAIN labels' :
                   /\ labels'[n] >= _IO_SPACE_SIZE
                   /\ labels'[n] <= Len(machCode')]_vars

\* C25 witness: assemble() returned over a program that defines L after two
\* word-emitting lines: L is 264, the image length.
C25_Witness ==
    /\ Finalized
    /\ Len(sourceLines) = 3
    /\ sourceLines[3] = <<"L", ":">>
    /\ labels = (<<"L">> :> _IO_SPACE_SIZE + 8)
    /\ Len(machCode) = _IO_SPACE_SIZE + 8

\* pass 1 has processed its last line
Pass1Over ==
    \/ pc = "Pass1Running" /\ lineIdx > Len(sourceLines)
    \/ pc = "Pass2Running"
    \/ polluted

\* C26: from the end of pass 1 on no step changes the label table: the reset
\* between the passes keeps every binding while the image restarts from the
\* I/O window alone, and no line of pass 2, label definitions included, adds,
\* removes or rebinds a label.
C26_TableFrozen ==
    [][/\ Pass1Over => labels' = labels
       /\ (pc = "Pass1Running" /\ pc' = "Pass2Running")
            => /\ machCode' = Repeat(0, _IO_SPACE_SIZE)
               /\ currentPos' = _IO_SPACE_SIZE]_vars

\* C26 witness: pass 2 has processed a label definition line that follows a
\* word-emitting line, and the table still holds the binding of pass 1.
C26_Witness ==
    /\ pc = "Pass2Running"
    /\ lineIdx = 3
    /\ EmitsWord(sourceLines[1])
    /\ sourceLines[2] = <<"L", ":">>
    /\ labels = (<<"L">> :> _IO_SPACE_SIZE + 4)

\* the last line that defines the label name
LastDefinition(name) ==
    CHOOSE k \in 1..Len(sourceLines) :
        /\ sourceLines[k] = <<name, ":">>
        /\ \A j \in (k + 1)..Len(sourceLines) : sourceLines[j] # <<name, ":">>

\* the label names the program defines
DefinedNames ==
    {sourceLines[k][1] : k \in {j \in 1..Len(sourceLines) : IsLabelLine(sourceLines[j])}}

\* C29: from the end of pass 1 on the label table holds, for each defined
\* name, the one address of its last definition line; a definition line adds
\* no error and no warning; in pass 2 a use of L, before or after any of its
\* definitions, encodes the address of the last one.
C29_LastDefinitionWins ==
    [][/\ (pc' = "Pass2Running" \/ Finalized')
            => /\ DOMAIN labels' = {<<n>> : n \in DefinedNames}
               /\ \A n \in DefinedNames :
                      labels'[<<n>>] = AddressOfLine(LastDefinition(n))
       /\ (AtLine /\ IsLabelLine(sourceLines[lineIdx]))
            => errors' = errors /\ warnings' = warnings
       /\ (pc = "Pass2Running" /\ lineIdx <= Len(sourceLines)
              /\ sourceLines[lineIdx] = LabelRefLine /\ "L" \in DefinedNames)
            => /\ errors' = errors
               /\ machCode' = machCode
                      \o WordBytes(ADDIU_OP, 3, 2,
                                   AddressOfLine(LastDefinition("L")))]_vars

\* C29 witness: a program that defines L, uses it, and defines it again was
\* assembled: L is the second address, 260, and the use encodes 260.
C29_Witness ==
    /\ Finalized
    /\ sourceLines = << <<"L", ":">>, LabelRefLine, <<"L", ":">> >>
    /\ labels = (<<"L">> :> _IO_SPACE_SIZE + 4)
    /\ machCode = Repeat(0, _IO_SPACE_SIZE) \o <<36, 98, 1, 4>>
    /\ errors = <<>>
    /\ warnings = <<>>

\* the pass has written its I/O window: a pass is running, was aborted, or
\* assemble() has returned over the loaded source
WindowWritten == pc \in {"Pass1Running", "Pass2Running", "aborted"} \/ Finalized

\* C27: once a pass has started the image holds at least 256 bytes and its
\* first 256 bytes are zero; when the pass is about to process its first line
\* the image is exactly those 256 zero bytes.
C27_IOWindow ==
    /\ WindowWritten
          => /\ Len(machCode) >= _IO_SPACE_SIZE
             /\ \A i \in 1.._IO_SPACE_SIZE : machCode[i] = 0
    /\ (pc \in {"Pass1Running", "Pass2Running"} /\ lineIdx = 1)
          => machCode = Repeat(0, _IO_SPACE_SIZE)

\* C27 witness: pass 2 has processed a line that emitted a word after the
\* I/O window.
C27_Witness ==
    /\ pc = "Pass2Running"
    /\ lineIdx = 2
    /\ Len(machCode) = _IO_SPACE_SIZE + 4
    /\ machCode[_IO_SPACE_SIZE + 1] # 0

\* the line has a problem that no label can cause or cure: an unknown
\* mnemonic, an addiu with other than three operands, or an addiu whose
\* immediate is a malformed expression
LabelIndependentProblem(rawLine) ==
    \/ MnemonicOf(rawLine) \in UnknownMnemonics
    \/ MnemonicOf(rawLine) = <<"addiu">> /\ Len(AddiuOperands(rawLine)) # 3
    \/ \E a \in MalformedAtoms : rawLine = <<"addiu", " ", "$2", ",", "$3", ",", a>>

\* the number of entries of the error list recorded for physical line k
ErrorsOfLine(k) == Cardinality({i \in 1..Len(errorOrigin) : errorOrigin[i] = k})

\* C28: when assemble() has returned, each line with a label-independent
\* problem has exactly one entry in the error list.
C28_OneErrorPerProblem ==
    Finalized =>
        \A k \in 1..Len(sourceLines) :
            LabelIndependentProblem(sourceLines[k]) => ErrorsOfLine(k) = 1

\* what the code does instead: each pass records the problem, so the line
\* has two entries
C28_OneErrorPerPass ==
    Finalized =>
        \A k \in 1..Len(sourceLines) :
            LabelIndependentProblem(sourceLines[k]) => ErrorsOfLine(k) = 2

\* C30: while a pass runs the cursor equals the image length; each processed
\* line grows the image by 0 or 4 bytes; when assemble() returns the image
\* holds the 256-byte I/O window and 4 bytes for each ".word" line with a
\* valid argument and each addiu line, whether or not the line recorded an
\* error.
C30_CursorAndLength ==
    [][/\ pc' \in {"Pass1Running", "Pass2Running", "aborted"}
            => currentPos' = Len(machCode')
       /\ AtLine => Len(machCode') - Len(machCode) \in {0, 4}
       /\ (polluted' /\ ~polluted)
            => Len(machCode') = _IO_SPACE_SIZE
                   + 4 * Cardinality({k \in 1..Len(sourceLines) :
                                         EmitsWord(sourceLines[k])})]_vars

\* C30 witness: assemble() returned over an addiu line with too few operands
\* followed by ".word 42": two errors were recorded and the image holds the
\* I/O window and two words.
C30_Witness ==
    /\ Finalized
    /\ sourceLines = << <<"addiu", " ", "$2", ",", "$0">>, <<".", "word", " ", "42">> >>
    /\ errors # <<>>
    /\ Len(machCode) = _IO_SPACE_SIZE + 8
    /\ currentPos = _IO_SPACE_SIZE + 8

====
